---- MODULE Spec2Model ----
(***************************************************************************)
(* port-kill: the process/port reconciliation engine.                      *)
(*                                                                         *)
(* ProcessMonitor (src/src/process_monitor.rs) samples which process       *)
(* listens on each monitored port, publishes a ProcessUpdate on a bounded  *)
(* crossbeam channel when the snapshot changed, and terminates processes   *)
(* (SIGTERM, 500 ms, SIGKILL) or the docker container that holds them.     *)
(* ConsolePortKillApp (src/src/console_app.rs) spawns the monitoring loop  *)
(* behind an Arc<tokio::sync::Mutex<ProcessMonitor>> and prints every      *)
(* update it receives.                                                     *)
(*                                                                         *)
(* The operating system and docker are the environment: processes spawn,   *)
(* bind ports, exec and exit on their own, and every external tool (lsof,  *)
(* ps, docker) may fail to run or exit non-zero.                           *)
(***************************************************************************)
EXTENDS Integers, Sequences, FiniteSets, TLC

\* ------------------------------------------------------------------ bounds
\* Sampling passes the monitoring loop makes before the model stops it.
MaxPasses == 2

\* Longest explicit port list (--ports) the command line is given.
MaxListLen == 3

\* ------------------------------------------------------------------- host
\* The TCP ports and the process ids of the host.
Ports == {3000, 8080}

Pids == {111, 222}

\* What `ps -o comm=` prints, as the segments str::split('/') cuts it into.
Commands == {<<"node">>, <<"", "usr", "bin", "python">>}

\* The docker containers of the host, and what `docker inspect` prints as
\* {{.Name}} (a leading slash, then the name).
Containers == {"c1"}

InspectName == <<"/", "web">>

\* bounded(100) in ConsolePortKillApp::new.
ChannelCap == 100

\* Option<T>: None, Some(x).
None == <<>>

Some(x) == <<x>>

\* anyhow::Result<T>.
Ok(v) == [ok |-> TRUE, val |-> v]

Err(why) == [ok |-> FALSE, val |-> why]

\* HashMap::new() and HashMap::insert.
EmptyMap == [k \in {} |-> None]

Insert(m, k, v) == [x \in (DOMAIN m) \cup {k} |-> IF x = k THEN v ELSE m[x]]

VARIABLES
    \* --- the command line and main
    args,               \* Args: start_port, end_port, ports (Option<Vec<u16>>), docker
    entry,              \* the binary: "console" (main_console.rs) or "tray" (main.rs)
    mainPc,             \* main: "parsed", "validated", "exited", "running"
    exitCode,           \* None, or Some(status) once the process has exited
    validation,         \* None, or Some(what Args::validate returned) (history)
    portsOut,           \* None, or Some(what get_ports_to_monitor returned) (history)
    \* --- the environment: the operating system and docker
    hostPids,           \* the pids the host hands out in this run
    running,            \* the pids that exist
    listeners,          \* port -> the pids listening on it
    comm,               \* pid -> its command (ps -o comm=)
    containerUp,        \* container -> whether `docker ps` lists it
    containerPids,      \* container -> the pids `docker top` lists for it
    \* --- ProcessMonitor
    ports_to_monitor,   \* ProcessMonitor.ports_to_monitor (a Vec<u16>)
    docker_enabled,     \* ProcessMonitor.docker_enabled
    current_processes,  \* ProcessMonitor.current_processes
    monPc,              \* the monitoring task: "spawned", "sampling", "idle"
    passNo,             \* number of the sampling pass (history)
    scanned,            \* the map the last scan_processes built (history)
    scanReturned,       \* how it returned: "none" before any, "ok", "err" (history)
    scanFailed,         \* lsof could not be run for any port of that scan (history)
    lastSend,           \* update_sender.send of the last pass: "none", "ok", "err"
    \* --- the update channel and its consumer
    channel,            \* the updates in flight, oldest first
    receiverAlive,      \* the Receiver half still exists
    received,           \* what handle_console_updates has printed (history)
    \* --- Arc<Mutex<ProcessMonitor>> and a termination request on it
    mutexHolder,        \* "none", "monitor", "terminator"
    termPc,             \* "idle", "locking", "running"
    \* --- one call of kill_process
    killPc,             \* where the call is; "idle" when there is none
    killPid,            \* its argument
    killContainer,      \* the container the lookup found, if any
    killResult,         \* "none" while it runs, then "ok" or "err"
    killTrace,          \* what the call has done so far, in order (history)
    killCaller,         \* "user", "terminator" or "all"
    killPrev,           \* how the caller's previous call of kill_process ended (history)
    \* --- one call of kill_all_processes, and a lone scan_processes
    kaPc,               \* "idle", "loop", "done"
    kaProcesses,        \* `processes`: what its scan returned
    kaTodo,             \* the ports the for loop has not reached yet
    kaTarget,           \* the port the loop is at (None between turns)
    kaErrors,           \* `errors`, as (port, pid) pairs
    kaAttempts,         \* the calls of kill_process it made, in order (history)
    kaResult,           \* "none" while it runs, then "ok" or "err"
    lookups,            \* port -> what get_process_on_port returned in the lone scan (history)
    \* --- the tray application (app.rs)
    trayMenu,           \* the processes the tray menu was last built from: port -> pid
    last_process_count, \* `last_process_count` of the event loop
    menuEvent,          \* the menu event the event loop received last (history)
    trayPc,             \* the kill thread: "idle", "spawned", "loop", "done"
    trayTodo,           \* `pids`: the pids the for loop has not reached yet
    trayAttempts,       \* the calls of kill_process it made, with how each ended (history)
    trayResult,         \* "none" while it runs, then "ok" or "err"
    \* --- the two kill_process functions, called on one behaviour of the host
    hostBehaviour,      \* how the host answers the steps of one call of kill_process
    consoleKill,        \* None, or Some(what ProcessMonitor::kill_process did) (history)
    trayKill            \* None, or Some(what PortKillApp::kill_process did) (history)

envVars == <<hostPids, running, listeners, comm, containerUp, containerPids>>

cliVars == <<args, entry, mainPc, exitCode, validation, portsOut>>

cfgVars == <<ports_to_monitor, docker_enabled, cliVars>>

monVars == <<current_processes, monPc, passNo, scanned, scanReturned, scanFailed,
            lastSend>>

chanVars == <<channel, receiverAlive, received>>

lockVars == <<mutexHolder, termPc>>

killVars == <<killPc, killPid, killContainer, killResult, killTrace, killCaller,
             killPrev>>

kaVars == <<kaPc, kaProcesses, kaTodo, kaTarget, kaErrors, kaAttempts, kaResult, lookups>>

trayVars == <<trayMenu, last_process_count, menuEvent, trayPc, trayTodo,
             trayAttempts, trayResult>>

eqVars == <<hostBehaviour, consoleKill, trayKill>>

vars == <<envVars, cfgVars, monVars, chanVars, lockVars, killVars, kaVars, trayVars,
          eqVars>>

\* The monitored ports, as a set.
Monitored == {ports_to_monitor[i] : i \in DOMAIN ports_to_monitor}

\* ------------------------------------------------------------------- Args
\* A range that leaves out its end: (a..b).collect().
RangeExclusive(a, b) == [i \in 1..(b - a) |-> a + i - 1]

\* (a..=b).collect(): every port from a to b, ascending; empty when a > b.
RangeInclusive(a, b) == [i \in 1..(b - a + 1) |-> a + i - 1]

\* Args::get_ports_to_monitor.
get_ports_to_monitor(a) ==
    IF a.ports # None THEN a.ports[1]
    ELSE RangeInclusive(a.start_port, a.end_port)

\* A validation that looks at the range only when no explicit list is given.
validateListFirst(a) ==
    IF a.ports = None
        THEN IF a.start_port > a.end_port
                THEN Err("Start port cannot be greater than end port")
                ELSE Ok("")
    ELSE IF a.ports[1] = <<>>
        THEN Err("At least one port must be specified")
    ELSE IF \E i \in DOMAIN a.ports[1] : a.ports[1][i] = 0
        THEN Err("Port 0 is not valid")
    ELSE Ok("")

\* Args::validate: Ok(()) or Err(message).
validate(a) ==
    IF a.start_port > a.end_port
        THEN Err("Start port cannot be greater than end port")
    ELSE IF a.ports # None /\ a.ports[1] = <<>>
        THEN Err("At least one port must be specified")
    ELSE IF a.ports # None /\ \E i \in DOMAIN a.ports[1] : a.ports[1][i] = 0
        THEN Err("Port 0 is not valid")
    ELSE Ok("")

\* The Args of a run that watches the explicit list `ports`.
ArgsWith(ports, docker) ==
    [start_port |-> 2000, end_port |-> 6000, ports |-> Some(ports), docker |-> docker]

\* ---------------------------------------------------------------- helpers
Last(s) == s[Len(s)]

\* Every ordering of the finite set S, as a sequence.
Orderings(S) ==
    {s \in [1..Cardinality(S) -> S] : \A i, j \in DOMAIN s : i # j => s[i] # s[j]}

\* --------------------------------------------------- external tool results
\* std::process::Command::output(): the tool could not be spawned (Err), or it
\* ran and exited with a status and an output.
NotSpawned == [spawned |-> FALSE, success |-> FALSE, stdout |-> <<>>]

Exited(success, out) == [spawned |-> TRUE, success |-> success, stdout |-> out]

\* `lsof -ti :port -sTCP:LISTEN`: one pid per line; exit status 1 when nothing
\* listens on the port.
LsofRuns(port) ==
    {NotSpawned} \cup
    (IF listeners[port] = {}
        THEN {Exited(FALSE, <<>>)}
        ELSE {Exited(TRUE, s) : s \in Orderings(listeners[port])})

\* `ps -p pid -o comm=`, run when the pids of `gone` have exited meanwhile:
\* exit status 1 for a pid that does not exist.
PsRuns(pid, gone) ==
    {NotSpawned} \cup
    (IF pid \in running \ gone
        THEN {Exited(TRUE, comm[pid])}
        ELSE {Exited(FALSE, <<>>)})

\* `docker ps`: the ids of the running containers; non-zero when the daemon
\* cannot be reached.
DockerPsRuns ==
    {NotSpawned, Exited(FALSE, <<>>)} \cup
    {Exited(TRUE, s) : s \in Orderings({c \in Containers : containerUp[c]})}

\* `docker top c`: the pids inside container c; non-zero when c is not running.
DockerTopRuns(c) ==
    {NotSpawned, Exited(FALSE, {})} \cup
    (IF containerUp[c] THEN {Exited(TRUE, containerPids[c])} ELSE {})

\* `docker inspect --format {{.Name}} c`.
DockerInspectRuns(c) ==
    {NotSpawned, Exited(FALSE, <<>>)} \cup
    (IF containerUp[c] THEN {Exited(TRUE, InspectName)} ELSE {})

\* ------------------------------------------------------- snapshot builder
\* pid_str.trim().parse::<i32>() on lsof's output: one pid parses, several
\* lines do not.
ParsePid(stdout) ==
    IF Len(stdout) = 1 THEN Ok(stdout[1]) ELSE Err("Failed to parse PID")

\* name.trim_start_matches('/').
RECURSIVE TrimStartSlash(_)
TrimStartSlash(s) ==
    IF s # <<>> /\ Head(s) = "/" THEN TrimStartSlash(Tail(s)) ELSE s

\* ProcessMonitor::container_has_pid, given the run of `docker top`.
container_has_pid(top, pid) ==
    IF ~top.spawned THEN Err("Failed to execute docker top command")
    ELSE IF ~top.success THEN Ok(FALSE)
    ELSE Ok(pid \in top.stdout)

\* ProcessMonitor::find_container_id_for_pid, given the run of `docker ps` and,
\* per container, the run of `docker top`.
RECURSIVE FindFrom(_, _, _, _)
FindFrom(ids, i, tops, pid) ==
    IF i > Len(ids) THEN Ok(None)
    ELSE LET has == container_has_pid(tops[ids[i]], pid)
         IN  IF ~has.ok THEN has
             ELSE IF has.val THEN Ok(Some(ids[i]))
             ELSE FindFrom(ids, i + 1, tops, pid)

find_container_id_for_pid(dps, tops, pid) ==
    IF ~dps.spawned THEN Err("Failed to execute docker ps command")
    ELSE IF ~dps.success THEN Ok(None)
    ELSE FindFrom(dps.stdout, 1, tops, pid)

\* ProcessMonitor::get_container_name, given the run of `docker inspect`.
get_container_name(inspect, container_id) ==
    IF ~inspect.spawned THEN Err("Failed to execute docker inspect command")
    ELSE IF inspect.success THEN Ok(TrimStartSlash(inspect.stdout))
    ELSE Ok(<<container_id>>)

\* A container info whose name lookup does not depend on the id lookup: a
\* failed id lookup still yields a name, asked for under an empty id.
get_docker_container_info_unlinked(found, inspects) ==
    LET container_id == IF found.ok THEN found.val ELSE None
        container_name ==
            IF container_id # None
                THEN LET name == get_container_name(inspects[container_id[1]],
                                                    container_id[1])
                     IN  IF name.ok THEN Some(name.val) ELSE None
                ELSE IF found.ok THEN None ELSE Some(<<"">>)
    IN  <<container_id, container_name>>

\* ProcessMonitor::get_docker_container_info: (container_id, container_name).
get_docker_container_info(found, inspects) ==
    LET container_id == IF found.ok THEN found.val ELSE None
        container_name ==
            IF container_id # None
                THEN LET name == get_container_name(inspects[container_id[1]],
                                                    container_id[1])
                     IN  IF name.ok THEN Some(name.val) ELSE None
                ELSE None
    IN  <<container_id, container_name>>

\* A describe step that fails when `ps` exits with a non-zero status.
get_process_details_strict(pid, port, ps, docker, found, inspects) ==
    IF ~ps.spawned THEN Err("Failed to execute ps command")
    ELSE IF ~ps.success THEN Err("Process not found")
    ELSE LET info == IF docker THEN get_docker_container_info(found, inspects)
                     ELSE <<None, None>>
         IN  Ok([pid |-> pid, port |-> port, command |-> ps.stdout,
                 name |-> Last(ps.stdout),
                 container_id |-> info[1], container_name |-> info[2]])

\* ProcessMonitor::get_process_details, given the run of `ps` and the
\* container lookup.
get_process_details(pid, port, ps, docker, found, inspects) ==
    IF ~ps.spawned THEN Err("Failed to execute ps command")
    ELSE LET command == IF ps.success THEN ps.stdout ELSE <<"unknown">>
             info == IF docker THEN get_docker_container_info(found, inspects)
                     ELSE <<None, None>>
         IN  Ok([pid |-> pid, port |-> port, command |-> command,
                 name |-> Last(command),
                 container_id |-> info[1], container_name |-> info[2]])

\* A port lookup that answers with a placeholder pid 0 when nothing listens.
LsofPidOrPlaceholder(port, lsof) ==
    IF ~lsof.spawned THEN Err("Failed to execute lsof command")
    ELSE IF lsof.success /\ lsof.stdout # <<>> THEN ParsePid(lsof.stdout)
    ELSE Ok(0)

\* ProcessMonitor::get_process_on_port up to the parsed pid.
LsofPid(port, lsof) ==
    IF ~lsof.spawned THEN Err("Failed to execute lsof command")
    ELSE IF lsof.success /\ lsof.stdout # <<>> THEN ParsePid(lsof.stdout)
    ELSE Err("No process found")

\* The container lookups the environment can answer for `pid`.
FoundSet(pid) ==
    {find_container_id_for_pid(dps, tops, pid) :
        dps \in DockerPsRuns,
        tops \in {t \in [Containers -> UNION {DockerTopRuns(c) : c \in Containers}] :
                    \A c \in Containers : t[c] \in DockerTopRuns(c)}}

InspectsSet ==
    {t \in [Containers -> UNION {DockerInspectRuns(c) : c \in Containers}] :
        \A c \in Containers : t[c] \in DockerInspectRuns(c)}

\* Every result ProcessMonitor::get_process_on_port(port) can return in the
\* current environment, when the pids of `gone` exit between lsof and ps.
PortResults(port, docker, gone) ==
    UNION {
        LET pid == LsofPid(port, lsof)
        IN  IF ~pid.ok THEN {pid}
            ELSE IF docker
                THEN {get_process_details(pid.val, port, ps, docker, found, inspects) :
                        ps \in PsRuns(pid.val, gone),
                        found \in FoundSet(pid.val),
                        inspects \in InspectsSet}
                ELSE {get_process_details(pid.val, port, ps, docker, Ok(None),
                                          [c \in Containers |-> NotSpawned]) :
                        ps \in PsRuns(pid.val, gone)}
        : lsof \in LsofRuns(port)}

\* One result per monitored port.
ScanChoices(docker, gone) ==
    LET all == UNION {PortResults(p, docker, gone) : p \in Monitored}
    IN  {r \in [Monitored -> all] :
            \A p \in Monitored : r[p] \in PortResults(p, docker, gone)}

\* A loop body that gives up what it has collected when a lookup fails.
ScanInsertOrReset(processes, port, result) ==
    IF result.ok THEN Insert(processes, port, result.val) ELSE EmptyMap

\* The loop body of ProcessMonitor::scan_processes for one port.
ScanInsert(processes, port, result) ==
    IF result.ok THEN Insert(processes, port, result.val) ELSE processes

\* ProcessMonitor::scan_processes: always Ok(processes).
RECURSIVE ScanFrom(_, _, _)
ScanFrom(i, processes, results) ==
    IF i > Len(ports_to_monitor) THEN processes
    ELSE ScanFrom(i + 1,
                  ScanInsert(processes, ports_to_monitor[i],
                             results[ports_to_monitor[i]]),
                  results)

scan_processes(results) == Ok(ScanFrom(1, EmptyMap, results))

\* An update that merges the new snapshot into the previous one.
ProcessUpdate_merged(processes) ==
    LET merged == [port \in (DOMAIN current_processes) \cup (DOMAIN processes) |->
                    IF port \in DOMAIN processes THEN processes[port]
                    ELSE current_processes[port]]
    IN  [processes |-> merged, count |-> Cardinality(DOMAIN merged)]

\* ProcessUpdate::new.
ProcessUpdate_new(processes) ==
    [processes |-> processes, count |-> Cardinality(DOMAIN processes)]

\* A comparison that looks at the ports and the pids only.
DiffersByPid(current, processes) ==
    \/ DOMAIN current # DOMAIN processes
    \/ \E port \in DOMAIN current : current[port].pid # processes[port].pid

\* `self.current_processes != processes`: HashMap's PartialEq over the
\* derived PartialEq of ProcessInfo.
Differs(current, processes) == current # processes

\* ------------------------------------------------------------ environment
DefaultComm == <<"node">>

\* The operating system after the pids of `gone` have exited.
RunningAfter(gone) == running \ gone

ListenersAfter(gone) == [p \in Ports |-> listeners[p] \ gone]

CommAfter(gone) == [q \in Pids |-> IF q \in gone THEN DefaultComm ELSE comm[q]]

ContainerPidsAfter(gone) == [c \in Containers |-> containerPids[c] \ gone]

\* A process starts, inside container c when inside = Some(c).
Spawn(pid, command, inside) ==
    /\ pid \in hostPids \ running
    /\ inside # None => containerUp[inside[1]]
    /\ running' = running \cup {pid}
    /\ comm' = [comm EXCEPT ![pid] = command]
    /\ containerPids' =
         IF inside = None THEN containerPids
         ELSE [containerPids EXCEPT ![inside[1]] = @ \cup {pid}]
    /\ UNCHANGED <<hostPids, listeners, containerUp>>

\* A running process starts listening on a port (the model follows only the
\* monitored ones).
Bind(pid, port) ==
    /\ pid \in running
    /\ port \in Monitored
    /\ pid \notin listeners[port]
    /\ listeners' = [listeners EXCEPT ![port] = @ \cup {pid}]
    /\ UNCHANGED <<hostPids, running, comm, containerUp, containerPids>>

\* A running process replaces its image (execve): same pid, other command.
Exec(pid, command) ==
    /\ pid \in running
    /\ comm[pid] # command
    /\ comm' = [comm EXCEPT ![pid] = command]
    /\ UNCHANGED <<hostPids, running, listeners, containerUp, containerPids>>

\* A process exits, on its own or on a signal it was sent earlier.
Exit(pid) ==
    /\ pid \in running
    /\ running' = RunningAfter({pid})
    /\ listeners' = ListenersAfter({pid})
    /\ comm' = CommAfter({pid})
    /\ containerPids' = ContainerPidsAfter({pid})
    /\ UNCHANGED <<hostPids, containerUp>>

\* A container is started, empty.
ContainerStart(c) ==
    /\ ~containerUp[c]
    /\ containerUp' = [containerUp EXCEPT ![c] = TRUE]
    /\ UNCHANGED <<hostPids, running, listeners, comm, containerPids>>

\* A container goes away with the processes inside it.
ContainerGone(c) ==
    /\ containerUp[c]
    /\ running' = RunningAfter(containerPids[c])
    /\ listeners' = ListenersAfter(containerPids[c])
    /\ comm' = CommAfter(containerPids[c])
    /\ containerPids' = [containerPids EXCEPT ![c] = {}]
    /\ containerUp' = [containerUp EXCEPT ![c] = FALSE]
    /\ UNCHANGED hostPids

\* The processes of the host come, listen and go.
ProcessEvent ==
    /\ \/ \E pid \in Pids, command \in Commands : Spawn(pid, command, None)
       \/ \E pid \in Pids, port \in Ports : Bind(pid, port)
       \/ \E pid \in Pids, command \in Commands : Exec(pid, command)
       \/ \E pid \in Pids : Exit(pid)
    /\ UNCHANGED <<cfgVars, trayVars, eqVars, monVars, chanVars, lockVars, killVars,
                   kaVars>>

\* The containers of the host come and go, and processes start inside them.
ContainerChange ==
    /\ \/ \E pid \in Pids, command \in Commands, c \in Containers :
            Spawn(pid, command, Some(c))
       \/ \E c \in Containers : ContainerStart(c)
       \/ \E c \in Containers : ContainerGone(c)
    /\ UNCHANGED <<cfgVars, trayVars, eqVars, monVars, chanVars, lockVars, killVars,
                   kaVars>>

\* The same, followed only when container-awareness is on.
ContainerEvent == docker_enabled /\ ContainerChange

\* --------------------------------------------------------- update channel
\* crossbeam_channel::Sender::send on the bounded channel: Err when the
\* receiving half is gone, else the update is queued (send waits for room).
SendResult(alive) == IF alive THEN "ok" ELSE "err"

\* A channel that hands out the newest update first.
SendChannelFront(ch, alive, msg) == IF alive THEN <<msg>> \o ch ELSE ch

SendChannel(ch, alive, msg) == IF alive THEN Append(ch, msg) ELSE ch

\* The receiving half of the channel is dropped with what it still holds.
ReceiverDropped ==
    /\ receiverAlive
    /\ receiverAlive' = FALSE
    /\ channel' = <<>>
    /\ UNCHANGED <<envVars, cfgVars, trayVars, eqVars, monVars, received, lockVars,
                   killVars,
                   kaVars>>

\* ConsolePortKillApp::handle_console_updates: one turn of its loop that
\* finds an update (try_recv) and prints the status line for it.
HandleConsoleUpdate ==
    /\ receiverAlive
    /\ channel # <<>>
    /\ received' = Append(received, [pass |-> Head(channel).pass,
                                     count |-> Head(channel).update.count])
    /\ channel' = Tail(channel)
    /\ UNCHANGED <<envVars, cfgVars, trayVars, eqVars, monVars, receiverAlive, lockVars,
                   killVars, kaVars>>

\* ------------------------------------------------------ reconciliation loop
\* The spawned task takes the mutex (monitor.lock().await) and enters
\* start_monitoring; the guard lives as long as start_monitoring runs.
MonitorStart ==
    /\ monPc = "spawned"
    /\ mutexHolder = "none"
    /\ mutexHolder' = "monitor"
    /\ monPc' = "sampling"
    /\ passNo' = 1
    /\ UNCHANGED <<envVars, cfgVars, trayVars, eqVars, current_processes, scanned,
                   scanReturned,
                   scanFailed, lastSend, chanVars, termPc, killVars, kaVars>>

\* The builder itself could not run: lsof could not be started for any port.
BuilderCouldNotRun(results) ==
    \A port \in Monitored : results[port] = Err("Failed to execute lsof command")

\* A loop that gives up when the update could not be sent.
AfterPassUntilSendError(scanOutcome, sendOutcome) ==
    IF sendOutcome = "err" THEN "returned" ELSE "idle"

\* Where the loop of start_monitoring goes after a turn, however the scan and
\* the send ended: no arm of the match returns or breaks.
AfterPass(scanOutcome, sendOutcome) == "idle"

\* What one turn of the loop of start_monitoring does with the scan result:
\* the new value of current_processes, and whether it sends the update.
NextCurrent(current, processes) ==
    IF Differs(current, processes) THEN processes ELSE current

Publishes(current, processes) == Differs(current, processes)

\* One turn of the loop of start_monitoring: scan, compare, publish. The pids
\* of `gone` exit while the scan runs, between its lsof and its ps.
SamplePass ==
    /\ monPc = "sampling"
    /\ \E gone \in SUBSET running :
        \E results \in ScanChoices(docker_enabled, gone) :
            LET scan == scan_processes(results)
                update == ProcessUpdate_new(scan.val)
                msg == [update |-> update, pass |-> passNo]
            IN  /\ IF scan.ok
                     THEN \* Ok(processes) => { ... }
                          /\ Publishes(current_processes, scan.val) /\ receiverAlive
                                => Len(channel) < ChannelCap
                          /\ scanned' = scan.val
                          /\ scanReturned' = "ok"
                          /\ current_processes' =
                                NextCurrent(current_processes, scan.val)
                          /\ IF Publishes(current_processes, scan.val)
                               THEN /\ lastSend' = SendResult(receiverAlive)
                                    /\ channel' =
                                         SendChannel(channel, receiverAlive, msg)
                               ELSE /\ lastSend' = "none"
                                    /\ UNCHANGED channel
                     ELSE \* Err(e) => error!("Failed to scan processes")
                          /\ scanReturned' = "err"
                          /\ lastSend' = "none"
                          /\ UNCHANGED <<scanned, current_processes, channel>>
                /\ scanFailed' = BuilderCouldNotRun(results)
                /\ monPc' = AfterPass(scanReturned', lastSend')
                /\ running' = RunningAfter(gone)
                /\ listeners' = ListenersAfter(gone)
                /\ comm' = CommAfter(gone)
                /\ containerPids' = ContainerPidsAfter(gone)
    /\ UNCHANGED <<hostPids, containerUp, cfgVars, trayVars, eqVars, passNo,
                   receiverAlive,
                   received,
                   lockVars, killVars, kaVars>>

\* sleep(MONITORING_INTERVAL) is over: the next turn of the loop.
Tick ==
    /\ monPc = "idle"
    /\ passNo < MaxPasses
    /\ monPc' = "sampling"
    /\ passNo' = passNo + 1
    /\ UNCHANGED <<envVars, cfgVars, trayVars, eqVars, current_processes, scanned,
                   scanReturned,
                   scanFailed, lastSend, chanVars, lockVars, killVars, kaVars>>

\* The future of start_monitoring is dropped while it sleeps (its task is
\* cancelled): the loop is over, its guard on the mutex is released, and the
\* monitor keeps the snapshot it had cached.
MonitorDropped ==
    /\ monPc = "idle"
    /\ monPc' = "dropped"
    /\ mutexHolder' = "none"
    /\ UNCHANGED <<envVars, cfgVars, trayVars, eqVars, current_processes, passNo,
                   scanned,
                   scanReturned,
                   scanFailed, lastSend, chanVars, termPc, killVars, kaVars>>

\* ------------------------------------------------------------ kill_process
\* nix::sys::signal::kill(pid, sig): ESRCH when the pid does not exist, EPERM
\* when the caller may not signal it, else the signal is delivered.
SignalOutcomes(pid) == IF pid \in running THEN {"ok", "err"} ELSE {"err"}

\* `ps -p pid` of is_process_running.
ProbeRuns(pid) == {NotSpawned, Exited(pid \in running, <<>>)}

\* `docker stop c` and `docker rm -f c`: success only for a container that
\* is there.
DockerStopRuns(c) ==
    {NotSpawned, Exited(FALSE, <<>>)} \cup
    (IF containerUp[c] THEN {Exited(TRUE, <<>>)} ELSE {})

DockerRmRuns(c) ==
    {NotSpawned, Exited(FALSE, <<>>)} \cup
    (IF containerUp[c] THEN {Exited(TRUE, <<>>)} ELSE {})

\* How a tool run shows in the history.
RunText(run) ==
    IF ~run.spawned THEN "nospawn" ELSE IF run.success THEN "ok" ELSE "nonzero"

\* ProcessMonitor::is_process_running.
is_process_running(run) == IF run.spawned THEN run.success ELSE FALSE

Goes(pc, result) == [pc |-> pc, result |-> result]

\* An entry that asks the container lookup whatever the flag says.
KillEntryLookup(docker) == "lookup"

\* kill_process, first lines: where the call goes when it starts.
KillEntry(docker) == IF docker THEN "lookup" ELSE "sigterm"

\* A kill_process that takes a lookup error for "no container".
AfterLookupAbsorbs(found) ==
    IF found.ok /\ found.val # None THEN Goes("stop", "none")
    ELSE Goes("sigterm", "none")

\* A kill_process that signals the process whatever the lookup found.
AfterLookupSignals(found) ==
    IF ~found.ok THEN Goes("done", "err") ELSE Goes("sigterm", "none")

\* kill_process after find_container_id_for_pid(pid).await? returned.
AfterLookup(found) ==
    IF ~found.ok THEN Goes("done", "err")
    ELSE IF found.val # None THEN Goes("stop", "none")
    ELSE Goes("sigterm", "none")

\* A kill_process that goes on to SIGKILL when SIGTERM was rejected.
AfterSigtermEscalates(outcome) ==
    IF outcome = "ok" THEN Goes("grace", "none") ELSE Goes("sigkill", "none")

\* kill_process after kill(pid, SIGTERM) returned.
AfterSigterm(outcome) ==
    IF outcome = "ok" THEN Goes("grace", "none") ELSE Goes("done", "err")

\* A kill_process that sends SIGKILL whatever the probe reports.
AfterProbeAlways(alive) == Goes("sigkill", "none")

\* kill_process after is_process_running(pid) returned.
AfterProbe(alive) ==
    IF alive THEN Goes("sigkill", "none") ELSE Goes("done", "ok")

\* A kill_process that ignores how SIGKILL ended.
AfterSigkillIgnored(outcome) == Goes("done", "ok")

\* kill_process after kill(pid, SIGKILL) returned.
AfterSigkill(outcome) ==
    IF outcome = "ok" THEN Goes("done", "ok") ELSE Goes("done", "err")

\* A stop_docker_container that signals the process when the stop failed.
AfterStopSignals(run) ==
    IF ~run.spawned THEN Goes("done", "err")
    ELSE IF run.success THEN Goes("done", "ok")
    ELSE Goes("sigterm", "none")

\* stop_docker_container after `docker stop` returned.
AfterStop(run) ==
    IF ~run.spawned THEN Goes("done", "err")
    ELSE IF run.success THEN Goes("done", "ok")
    ELSE Goes("remove", "none")

\* A stop_docker_container that takes every remove that ran for a success.
AfterRemoveIgnored(run) ==
    IF ~run.spawned THEN Goes("done", "err") ELSE Goes("done", "ok")

\* stop_docker_container after `docker rm -f` returned.
AfterRemove(run) ==
    IF ~run.spawned THEN Goes("done", "err")
    ELSE IF run.success THEN Goes("done", "ok")
    ELSE Goes("done", "err")

Event(op, res) == [op |-> op, res |-> res]

\* How a call of kill_process ended: its argument, its result and the last
\* thing it did; NoCall before any call.
Ended(pid, result, trace) ==
    [pid |-> pid, result |-> result,
     last |-> IF trace = <<>> THEN Event("none", "none") ELSE Last(trace)]

NoCall == Ended(111, "none", <<>>)

\* kill_process(pid) is entered.
KillBegin(pid, caller) ==
    /\ killPc' = KillEntry(docker_enabled)
    /\ killPid' = pid
    /\ killContainer' = None
    /\ killResult' = "none"
    /\ killTrace' = <<>>
    /\ killCaller' = caller
    /\ killPrev' = IF caller = "user" THEN Ended(killPid, killResult, killTrace)
                   ELSE killPrev

KillGoes(next, event) ==
    /\ killPc' = next.pc
    /\ killResult' = next.result
    /\ killTrace' = Append(killTrace, event)
    /\ UNCHANGED <<killPid, killCaller, killPrev>>

\* kill_process is called on a ProcessMonitor of the caller's own.
KillCall ==
    /\ killPc = "idle" /\ kaPc = "idle" /\ termPc = "idle"
    /\ \E pid \in Pids : KillBegin(pid, "user")
    /\ UNCHANGED <<envVars, cfgVars, trayVars, eqVars, monVars, chanVars, lockVars,
                   kaVars>>

\* if self.docker_enabled { find_container_id_for_pid(pid).await? ... }
KillLookup ==
    /\ killPc = "lookup"
    /\ \E found \in FoundSet(killPid) :
        /\ KillGoes(AfterLookup(found),
                    Event("lookup", IF ~found.ok THEN "err"
                                    ELSE IF found.val = None THEN "none"
                                    ELSE "some"))
        /\ killContainer' = IF found.ok THEN found.val ELSE None
    /\ UNCHANGED <<envVars, cfgVars, trayVars, eqVars, monVars, chanVars, lockVars,
                   kaVars>>

\* kill(Pid::from_raw(pid), Signal::SIGTERM)
KillSigterm ==
    /\ killPc = "sigterm"
    /\ \E outcome \in SignalOutcomes(killPid) :
        KillGoes(AfterSigterm(outcome), Event("SIGTERM", outcome))
    /\ UNCHANGED <<envVars, cfgVars, trayVars, eqVars, monVars, chanVars, lockVars,
                   kaVars,
                   killContainer>>

\* sleep(Duration::from_millis(500)).await
KillGrace ==
    /\ killPc = "grace"
    /\ KillGoes(Goes("probe", "none"), Event("wait", "500ms"))
    /\ UNCHANGED <<envVars, cfgVars, trayVars, eqVars, monVars, chanVars, lockVars,
                   kaVars,
                   killContainer>>

\* if self.is_process_running(pid).await { ... } else { ... }
KillProbe ==
    /\ killPc = "probe"
    /\ \E run \in ProbeRuns(killPid) :
        KillGoes(AfterProbe(is_process_running(run)),
                 Event("probe", IF is_process_running(run) THEN "alive" ELSE "gone"))
    /\ UNCHANGED <<envVars, cfgVars, trayVars, eqVars, monVars, chanVars, lockVars,
                   kaVars,
                   killContainer>>

\* kill(Pid::from_raw(pid), Signal::SIGKILL): a delivered SIGKILL ends the
\* process.
KillSigkill ==
    /\ killPc = "sigkill"
    /\ \E outcome \in SignalOutcomes(killPid) :
        /\ KillGoes(AfterSigkill(outcome), Event("SIGKILL", outcome))
        /\ LET gone == IF outcome = "ok" THEN {killPid} ELSE {}
           IN  /\ running' = RunningAfter(gone)
               /\ listeners' = ListenersAfter(gone)
               /\ comm' = CommAfter(gone)
               /\ containerPids' = ContainerPidsAfter(gone)
    /\ UNCHANGED <<hostPids, containerUp, cfgVars, trayVars, eqVars, monVars, chanVars,
                   lockVars,
                   kaVars, killContainer>>

\* The host after a docker command on container c ended as `run`: a stop or
\* a remove that succeeded ends the container and the processes inside it.
ContainerAfter(c, run) ==
    IF run.spawned /\ run.success
        THEN /\ running' = RunningAfter(containerPids[c])
             /\ listeners' = ListenersAfter(containerPids[c])
             /\ comm' = CommAfter(containerPids[c])
             /\ containerPids' = [containerPids EXCEPT ![c] = {}]
             /\ containerUp' = [containerUp EXCEPT ![c] = FALSE]
        ELSE UNCHANGED <<running, listeners, comm, containerPids, containerUp>>

\* stop_docker_container: Command::new("docker").args(["stop", id])
KillStop ==
    /\ killPc = "stop"
    /\ \E run \in DockerStopRuns(killContainer[1]) :
        /\ KillGoes(AfterStop(run), Event("stop", RunText(run)))
        /\ ContainerAfter(killContainer[1], run)
    /\ UNCHANGED <<hostPids, cfgVars, trayVars, eqVars, monVars, chanVars, lockVars,
                   kaVars,
                   killContainer>>

\* stop_docker_container: Command::new("docker").args(["rm", "-f", id])
KillRemove ==
    /\ killPc = "remove"
    /\ \E run \in DockerRmRuns(killContainer[1]) :
        /\ KillGoes(AfterRemove(run), Event("rm", RunText(run)))
        /\ ContainerAfter(killContainer[1], run)
    /\ UNCHANGED <<hostPids, cfgVars, trayVars, eqVars, monVars, chanVars, lockVars,
                   kaVars,
                   killContainer>>

\* kill_process returns to its caller.
KillReturn ==
    /\ killPc = "done"
    /\ killCaller = "user"
    /\ killPc' = "idle"
    /\ UNCHANGED <<envVars, cfgVars, trayVars, eqVars, monVars, chanVars, lockVars,
                   kaVars,
                   killPid, killContainer, killResult, killTrace, killCaller,
                   killPrev>>

\* ------------------------------------------------------ kill_all_processes
NoLookups == [p \in {} |-> Err("")]

\* A loop that stops at the first failure.
LoopGoesOnUntilError(errors, todo) == todo # {} /\ errors = <<>>

\* for (port, process_info) in processes: whether the loop goes on.
LoopGoesOn(errors, todo) == todo # {}

Attempt(port, pid, result) == [port |-> port, pid |-> pid, result |-> result]

\* A loop that visits each pid once, under the lowest of its ports.
LoopEntriesByPid(processes) ==
    {port \in DOMAIN processes :
        \A other \in DOMAIN processes :
            processes[other].pid = processes[port].pid => port <= other}

\* for (port, process_info) in processes: one turn per entry of the map.
LoopEntries(processes) == DOMAIN processes

\* A batch that takes its targets from the snapshot the loop has cached.
CachedTargets(processes) == current_processes

\* let processes = self.scan_processes().await?: the targets of the batch are
\* what the scan of this call returned.
FreshTargets(processes) == processes

\* kill_all_processes, last lines: the result from the collected errors.
BatchResult(errors) == IF errors # <<>> THEN "err" ELSE "ok"

\* kill_all_processes, the body of its for loop after kill_process returned.
CollectError(errors, port, pid, result) ==
    IF result = "err" THEN Append(errors, <<port, pid>>) ELSE errors

\* kill_all_processes is called: let processes = self.scan_processes().await?
KaCall ==
    /\ kaPc = "idle" /\ killPc = "idle" /\ termPc = "idle"
    /\ \E gone \in SUBSET running :
        \E results \in ScanChoices(docker_enabled, gone) :
            LET scan == scan_processes(results)
            IN  /\ scanned' = IF scan.ok THEN scan.val ELSE scanned
                /\ scanReturned' = IF scan.ok THEN "ok" ELSE "err"
                /\ scanFailed' = BuilderCouldNotRun(results)
                /\ IF scan.ok
                     THEN /\ kaProcesses' = FreshTargets(scan.val)
                          /\ kaTodo' = LoopEntries(kaProcesses')
                          /\ kaPc' = "loop"
                          /\ kaResult' = "none"
                     ELSE \* the `?` returns the error of the scan
                          /\ kaProcesses' = EmptyMap
                          /\ kaTodo' = {}
                          /\ kaPc' = "done"
                          /\ kaResult' = "err"
                /\ running' = RunningAfter(gone)
                /\ listeners' = ListenersAfter(gone)
                /\ comm' = CommAfter(gone)
                /\ containerPids' = ContainerPidsAfter(gone)
    /\ kaTarget' = None
    /\ kaErrors' = <<>>
    /\ kaAttempts' = <<>>
    /\ UNCHANGED <<hostPids, containerUp, cfgVars, trayVars, eqVars, current_processes,
                   monPc, passNo,
                   lastSend, chanVars, lockVars, killVars, lookups>>

\* for (port, process_info) in processes: the next entry, in the HashMap's
\* order, and the call of kill_process for it.
KaNext ==
    /\ kaPc = "loop" /\ kaTarget = None /\ killPc = "idle"
    /\ LoopGoesOn(kaErrors, kaTodo)
    /\ \E port \in kaTodo :
        /\ kaTarget' = Some(port)
        /\ kaTodo' = kaTodo \ {port}
        /\ kaAttempts' = Append(kaAttempts,
                                Attempt(port, kaProcesses[port].pid, "none"))
        /\ KillBegin(kaProcesses[port].pid, "all")
    /\ UNCHANGED <<envVars, cfgVars, trayVars, eqVars, monVars, chanVars, lockVars,
                   kaPc,
                   kaProcesses, kaErrors, kaResult, lookups>>

\* if let Err(e) = self.kill_process(pid).await { errors.push(..) }
KaCollect ==
    /\ kaPc = "loop" /\ kaTarget # None
    /\ killPc = "done" /\ killCaller = "all"
    /\ kaErrors' = CollectError(kaErrors, kaTarget[1], killPid, killResult)
    /\ kaAttempts' = [kaAttempts EXCEPT ![Len(kaAttempts)].result = killResult]
    /\ kaTarget' = None
    /\ killPc' = "idle"
    /\ UNCHANGED <<envVars, cfgVars, trayVars, eqVars, monVars, chanVars, lockVars,
                   kaPc,
                   kaProcesses, kaTodo, kaResult, lookups,
                   killPid, killContainer, killResult, killTrace, killCaller,
                   killPrev>>

\* The loop is over: Err if errors is not empty, else Ok.
KaFinish ==
    /\ kaPc = "loop" /\ kaTarget = None
    /\ ~LoopGoesOn(kaErrors, kaTodo)
    /\ kaResult' = BatchResult(kaErrors)
    /\ kaPc' = "done"
    /\ UNCHANGED <<envVars, cfgVars, trayVars, eqVars, monVars, chanVars, lockVars,
                   killVars,
                   kaProcesses, kaTodo, kaTarget, kaErrors, kaAttempts, lookups>>

\* ------------------------------------------------------ a lone scan_processes
\* scan_processes is called once, in any state of the host.
ScanCall ==
    /\ lookups = NoLookups
    /\ \E gone \in SUBSET running :
        \E results \in ScanChoices(docker_enabled, gone) :
            LET scan == scan_processes(results)
            IN  /\ scanned' = IF scan.ok THEN scan.val ELSE scanned
                /\ scanReturned' = IF scan.ok THEN "ok" ELSE "err"
                /\ scanFailed' = BuilderCouldNotRun(results)
                /\ lookups' = results
                /\ running' = RunningAfter(gone)
                /\ listeners' = ListenersAfter(gone)
                /\ comm' = CommAfter(gone)
                /\ containerPids' = ContainerPidsAfter(gone)
    /\ UNCHANGED <<hostPids, containerUp, cfgVars, trayVars, eqVars, current_processes,
                   monPc, passNo,
                   lastSend, chanVars, lockVars, killVars, kaPc, kaProcesses,
                   kaTodo, kaTarget, kaErrors, kaAttempts, kaResult>>

\* ------------------------------------------- a termination on the shared monitor
\* A termination is asked for on the Arc<Mutex<ProcessMonitor>> of the
\* application: it has to take the mutex first (process_monitor.lock().await).
TermDispatch ==
    /\ mainPc = "running"
    /\ termPc = "idle" /\ killPc = "idle"
    /\ termPc' = "locking"
    /\ UNCHANGED <<envVars, cfgVars, trayVars, eqVars, monVars, chanVars,
                   mutexHolder, killVars,
                   kaVars>>

\* The mutex is free: the termination takes it and enters kill_process.
TermAcquire ==
    /\ termPc = "locking"
    /\ mutexHolder = "none"
    /\ mutexHolder' = "terminator"
    /\ termPc' = "running"
    /\ \E pid \in Pids : KillBegin(pid, "terminator")
    /\ UNCHANGED <<envVars, cfgVars, trayVars, eqVars, monVars, chanVars, kaVars>>

\* kill_process returned: the guard is dropped, and the call is forgotten.
TermRelease ==
    /\ termPc = "running"
    /\ killPc = "done" /\ killCaller = "terminator"
    /\ mutexHolder' = "none"
    /\ termPc' = "idle"
    /\ killPc' = "idle"
    /\ killPid' = 111
    /\ killContainer' = None
    /\ killResult' = "none"
    /\ killTrace' = <<>>
    /\ killCaller' = "user"
    /\ killPrev' = NoCall
    /\ UNCHANGED <<envVars, cfgVars, trayVars, eqVars, monVars, chanVars, kaVars>>

\* --------------------------------------------------------------------- main
\* A main that prints the message of a failed validation and carries on.
AfterValidateWarns(result) == "validated"

\* main, both binaries: if let Err(e) = args.validate() { eprintln!; exit(1) }.
AfterValidate(result) == IF result.ok THEN "validated" ELSE "exited"

MainValidate ==
    /\ mainPc = "parsed"
    /\ validation' = Some(validate(args))
    /\ mainPc' = AfterValidate(validate(args))
    /\ exitCode' = IF mainPc' = "exited" THEN Some(1) ELSE None
    /\ UNCHANGED <<args, entry, portsOut, ports_to_monitor, docker_enabled, envVars,
                   monVars, chanVars, lockVars, killVars, kaVars,
                   trayVars, eqVars>>

\* ConsolePortKillApp::new(args) / PortKillApp::new(args): the ProcessMonitor
\* is constructed; the console application then spawns the monitoring task
\* (run), the tray application never calls start_monitoring.
MainConstruct ==
    /\ mainPc = "validated"
    /\ ports_to_monitor' = get_ports_to_monitor(args)
    /\ docker_enabled' = args.docker
    /\ mainPc' = "running"
    /\ monPc' = IF entry = "console" THEN "spawned" ELSE "none"
    /\ UNCHANGED <<args, entry, exitCode, validation, portsOut, envVars,
                   current_processes, passNo, scanned, scanReturned, scanFailed,
                   lastSend, chanVars, lockVars, killVars, kaVars,
                   trayVars, eqVars>>

\* Args::validate and Args::get_ports_to_monitor called on their own.
CallValidate ==
    /\ validation = None
    /\ validation' = Some(validate(args))
    /\ UNCHANGED <<args, entry, mainPc, exitCode, portsOut, ports_to_monitor,
                   docker_enabled, envVars, monVars, chanVars, lockVars, killVars,
                   kaVars,
                   trayVars, eqVars>>

CallGetPorts ==
    /\ portsOut = None
    /\ portsOut' = Some(get_ports_to_monitor(args))
    /\ UNCHANGED <<args, entry, mainPc, exitCode, validation, ports_to_monitor,
                   docker_enabled, envVars, monVars, chanVars, lockVars, killVars,
                   kaVars,
                   trayVars, eqVars>>

\* ------------------------------------------------------- the tray application
\* The ports the tray application asks lsof about: ":2000-6000", whatever the
\* command line says.
TrayPorts == {p \in Ports : 2000 <= p /\ p <= 6000}

\* A menu event: the item that was clicked. TrayMenu::create_menu makes one
\* "Kill All Processes" item, one "Kill: Port p: name (PID pid)" item per
\* process and one "Quit" item.
MenuItem(kind, port, pid) == [kind |-> kind, port |-> port, pid |-> pid]

NoMenuEvent == MenuItem("none", 0, 0)

create_menu(processes) ==
    {MenuItem("kill_all", 0, 0), MenuItem("quit", 0, 0)} \cup
    {MenuItem("kill", port, processes[port]) : port \in DOMAIN processes}

\* PortKillApp::get_processes_on_ports: the lines of `lsof -i :2000-6000
\* -sTCP:LISTEN -P -n`, inserted under their port (a later line for the same
\* port replaces an earlier one); nothing when lsof cannot be started.
get_processes_on_ports ==
    LET bound == {p \in TrayPorts : listeners[p] # {}}
    IN  {EmptyMap} \cup
        {f \in [bound -> Pids] : \A p \in bound : f[p] \in listeners[p]}

\* The event loop, every 5 seconds: the menu is rebuilt when the number of
\* processes changed and the last rebuild is 3 seconds old (`cooled`), and
\* only from a non-empty list.
TrayCheck ==
    /\ mainPc = "running" /\ entry = "tray"
    /\ \E processes \in get_processes_on_ports, cooled \in BOOLEAN :
        LET process_count == Cardinality(DOMAIN processes)
        IN  IF process_count # last_process_count /\ cooled
                THEN /\ trayMenu' = IF process_count > 0 THEN processes ELSE trayMenu
                     /\ last_process_count' = process_count
                ELSE UNCHANGED <<trayMenu, last_process_count>>
    /\ UNCHANGED <<envVars, cfgVars, eqVars, monVars, chanVars, lockVars, killVars,
                   kaVars,
                   menuEvent, trayPc, trayTodo, trayAttempts, trayResult>>

\* What the event loop starts on a menu event: the kill thread, whatever the
\* item was.
OnMenuEvent(item) == "spawned"

\* if let Ok(event) = menu_event_receiver.try_recv() { std::thread::spawn(..) }
\* (the model follows one kill thread at a time).
TrayMenuEvent ==
    /\ mainPc = "running" /\ entry = "tray"
    /\ trayPc \in {"idle", "done"} /\ killPc = "idle"
    /\ \E item \in create_menu(trayMenu) :
        /\ menuEvent' = item
        /\ trayPc' = OnMenuEvent(item)
    /\ trayTodo' = <<>>
    /\ trayAttempts' = <<>>
    /\ trayResult' = "none"
    /\ UNCHANGED <<envVars, cfgVars, eqVars, monVars, chanVars, lockVars, killVars,
                   kaVars,
                   trayMenu, last_process_count>>

\* `lsof -ti :2000-6000 -sTCP:LISTEN`: the pids listening in the range, one
\* per line.
TrayLsofRuns ==
    LET pids == UNION {listeners[p] : p \in TrayPorts}
    IN  {NotSpawned} \cup {Exited(pids # {}, s) : s \in Orderings(pids)}

\* PortKillApp::kill_all_processes up to the for loop.
TrayKillAllCall ==
    /\ trayPc = "spawned"
    /\ \E lsof \in TrayLsofRuns :
        IF ~lsof.spawned
            THEN /\ trayResult' = "err" /\ trayPc' = "done" /\ trayTodo' = <<>>
        ELSE IF lsof.stdout = <<>>
            THEN /\ trayResult' = "ok" /\ trayPc' = "done" /\ trayTodo' = <<>>
        ELSE /\ trayResult' = "none" /\ trayPc' = "loop" /\ trayTodo' = lsof.stdout
    /\ UNCHANGED <<envVars, cfgVars, eqVars, monVars, chanVars, lockVars, killVars,
                   kaVars,
                   trayMenu, last_process_count, menuEvent, trayAttempts>>

\* for pid_str in pids { ... Self::kill_process(pid) ... }: the next pid, and
\* PortKillApp::kill_process (SIGTERM, 500 ms, ps, SIGKILL) entered for it.
TrayKillNext ==
    /\ trayPc = "loop" /\ killPc = "idle" /\ trayTodo # <<>>
    /\ trayTodo' = Tail(trayTodo)
    /\ killPc' = "sigterm"
    /\ killPid' = Head(trayTodo)
    /\ killContainer' = None
    /\ killResult' = "none"
    /\ killTrace' = <<>>
    /\ killCaller' = "tray"
    /\ UNCHANGED <<envVars, cfgVars, eqVars, monVars, chanVars, lockVars, kaVars,
                   killPrev,
                   trayMenu, last_process_count, menuEvent, trayPc, trayAttempts,
                   trayResult>>

\* match Self::kill_process(pid) { Ok(_) => info!(..), Err(e) => error!(..) }
TrayKillCollect ==
    /\ trayPc = "loop"
    /\ killPc = "done" /\ killCaller = "tray"
    /\ trayAttempts' = Append(trayAttempts, [pid |-> killPid, result |-> killResult])
    /\ killPc' = "idle"
    /\ UNCHANGED <<envVars, cfgVars, eqVars, monVars, chanVars, lockVars, kaVars,
                   killPid, killContainer, killResult, killTrace, killCaller,
                   killPrev, trayMenu, last_process_count, menuEvent, trayPc,
                   trayTodo, trayResult>>

\* What PortKillApp::kill_all_processes returns after the loop: Ok(()).
TrayBatchResult(attempts) == "ok"

TrayKillAllFinish ==
    /\ trayPc = "loop" /\ killPc = "idle" /\ trayTodo = <<>>
    /\ trayResult' = TrayBatchResult(trayAttempts)
    /\ trayPc' = "done"
    /\ UNCHANGED <<envVars, cfgVars, eqVars, monVars, chanVars, lockVars, killVars,
                   kaVars,
                   trayMenu, last_process_count, menuEvent, trayTodo, trayAttempts>>

\* ------------------------------------- the two kill_process, side by side
\* One behaviour of the host during a call of kill_process(pid): whether the
\* pid exists when SIGTERM is sent, when `ps -p pid` runs and when SIGKILL is
\* sent, whether the caller may signal it, and whether ps can be started.
HostBehaviours ==
    [pid : Pids, atSigterm : BOOLEAN, atProbe : BOOLEAN, atSigkill : BOOLEAN,
     permitted : BOOLEAN, psSpawns : BOOLEAN]

QuietHost ==
    [pid |-> 111, atSigterm |-> FALSE, atProbe |-> FALSE, atSigkill |-> FALSE,
     permitted |-> TRUE, psSpawns |-> TRUE]

\* kill(Pid::from_raw(pid), sig): Ok when the pid exists and may be
\* signalled, else Err (ESRCH, EPERM).
KillOutcome(exists, permitted) == IF exists /\ permitted THEN "ok" ELSE "err"

\* `ps -p pid`: exit status 0 when the pid exists.
PsRun(b) == IF b.psSpawns THEN Exited(b.atProbe, <<>>) ELSE NotSpawned

\* What a call did: the signals it sent to the pid, in order, and Ok or Err.
Did(signals, result) == [signals |-> signals, result |-> result]

Signal(sig, pid) == [sig |-> sig, pid |-> pid]

\* ProcessMonitor::kill_process(pid) with docker_enabled = false, on the
\* behaviour b: the steps of the call, from `pc` on.
RECURSIVE KillFrom(_, _, _)
KillFrom(pc, signals, b) ==
    IF pc = "sigterm"
        THEN LET next == AfterSigterm(KillOutcome(b.atSigterm, b.permitted))
                 sent == Append(signals, Signal("SIGTERM", b.pid))
             IN  IF next.pc = "done" THEN Did(sent, next.result)
                 ELSE KillFrom(next.pc, sent, b)
    ELSE IF pc = "grace"
        THEN KillFrom("probe", signals, b)
    ELSE IF pc = "probe"
        THEN LET next == AfterProbe(is_process_running(PsRun(b)))
             IN  IF next.pc = "done" THEN Did(signals, next.result)
                 ELSE KillFrom(next.pc, signals, b)
    ELSE LET next == AfterSigkill(KillOutcome(b.atSigkill, b.permitted))
         IN  Did(Append(signals, Signal("SIGKILL", b.pid)), next.result)

ProcessMonitor_kill_process(b) == KillFrom(KillEntry(FALSE), <<>>, b)

\* A tray kill_process that takes a ps it cannot start for "still running".
PortKillApp_kill_process_wary(b) ==
    IF KillOutcome(b.atSigterm, b.permitted) = "err"
        THEN Did(<<Signal("SIGTERM", b.pid)>>, "err")
    ELSE LET run == PsRun(b)
             still_running == IF run.spawned THEN run.success ELSE TRUE
         IN  IF still_running
                THEN Did(<<Signal("SIGTERM", b.pid), Signal("SIGKILL", b.pid)>>,
                         KillOutcome(b.atSigkill, b.permitted))
                ELSE Did(<<Signal("SIGTERM", b.pid)>>, "ok")

\* PortKillApp::kill_process(pid) on the behaviour b.
PortKillApp_kill_process(b) ==
    IF KillOutcome(b.atSigterm, b.permitted) = "err"
        THEN \* return Err("Failed to send SIGTERM")
             Did(<<Signal("SIGTERM", b.pid)>>, "err")
    ELSE LET run == PsRun(b)
             \* .output().map(|output| output.status.success()).unwrap_or(false)
             still_running == IF run.spawned THEN run.success ELSE FALSE
         IN  IF still_running
                THEN IF KillOutcome(b.atSigkill, b.permitted) = "ok"
                        THEN Did(<<Signal("SIGTERM", b.pid),
                                   Signal("SIGKILL", b.pid)>>, "ok")
                        ELSE \* return Err("Failed to send SIGKILL")
                             Did(<<Signal("SIGTERM", b.pid),
                                   Signal("SIGKILL", b.pid)>>, "err")
                ELSE Did(<<Signal("SIGTERM", b.pid)>>, "ok")

\* Each of the two functions is called on the behaviour of the run.
CallConsoleKill ==
    /\ consoleKill = None
    /\ consoleKill' = Some(ProcessMonitor_kill_process(hostBehaviour))
    /\ UNCHANGED <<envVars, cfgVars, monVars, chanVars, lockVars, killVars, kaVars,
                   trayVars, hostBehaviour, trayKill>>

CallTrayKill ==
    /\ trayKill = None
    /\ trayKill' = Some(PortKillApp_kill_process(hostBehaviour))
    /\ UNCHANGED <<envVars, cfgVars, monVars, chanVars, lockVars, killVars, kaVars,
                   trayVars, hostBehaviour, consoleKill>>

\* ------------------------------------------------------------------- system
\* The host when the program starts, with main at `pc` of binary `who` on the
\* command line `a`: once main is "running", a ProcessMonitor as
\* ProcessMonitor::new returns it, and nothing called yet.
InitStateOn(pids, a, pc, who, b) ==
    /\ args = a
    /\ entry = who
    /\ mainPc = pc
    /\ exitCode = None
    /\ validation = None
    /\ portsOut = None
    /\ hostPids = pids
    /\ running = {}
    /\ listeners = [p \in Ports |-> {}]
    /\ comm = [q \in Pids |-> DefaultComm]
    /\ containerUp = [c \in Containers |-> FALSE]
    /\ containerPids = [c \in Containers |-> {}]
    /\ ports_to_monitor = IF pc = "running" THEN get_ports_to_monitor(a) ELSE <<>>
    /\ docker_enabled = (pc = "running" /\ a.docker)
    /\ current_processes = EmptyMap
    /\ monPc = IF pc = "running" /\ who = "console" THEN "spawned" ELSE "none"
    /\ passNo = 0
    /\ scanned = EmptyMap
    /\ scanReturned = "none"
    /\ scanFailed = FALSE
    /\ lastSend = "none"
    /\ channel = <<>>
    /\ receiverAlive = TRUE
    /\ received = <<>>
    /\ mutexHolder = "none"
    /\ termPc = "idle"
    /\ killPc = "idle"
    /\ killPid = 111
    /\ killContainer = None
    /\ killResult = "none"
    /\ killTrace = <<>>
    /\ killCaller = "user"
    /\ killPrev = NoCall
    /\ kaPc = "idle"
    /\ kaProcesses = EmptyMap
    /\ kaTodo = {}
    /\ kaTarget = None
    /\ kaErrors = <<>>
    /\ kaAttempts = <<>>
    /\ kaResult = "none"
    /\ lookups = NoLookups
    /\ trayMenu = EmptyMap
    /\ last_process_count = 0
    /\ menuEvent = NoMenuEvent
    /\ trayPc = "idle"
    /\ trayTodo = <<>>
    /\ trayAttempts = <<>>
    /\ trayResult = "none"
    /\ hostBehaviour = b
    /\ consoleKill = None
    /\ trayKill = None

\* The same, in a run that follows no side-by-side call of kill_process.
InitState(pids, a, pc, who) == InitStateOn(pids, a, pc, who, QuietHost)

\* The console application after ConsolePortKillApp::new, watching the
\* explicit list `ports`.
InitWith(ports, docker, pids) ==
    InitState(pids, ArgsWith(ports, docker), "running", "console")

KillSteps ==
    \/ KillLookup
    \/ KillSigterm
    \/ KillGrace
    \/ KillProbe
    \/ KillSigkill
    \/ KillStop
    \/ KillRemove

\* The console application: the monitoring task, the consumer of its updates
\* and a termination asked for on the shared monitor, watching one port, with
\* container-awareness off (two processes) or on (one).
Init ==
    \/ InitWith(<<3000>>, FALSE, Pids)
    \/ InitWith(<<3000>>, TRUE, {111})

Next ==
    \/ ProcessEvent
    \/ ContainerEvent
    \/ MonitorStart
    \/ SamplePass
    \/ Tick
    \/ HandleConsoleUpdate
    \/ ReceiverDropped
    \/ TermDispatch
    \/ TermAcquire
    \/ KillSteps
    \/ TermRelease

Spec == Init /\ [][Next]_vars

\* kill_process called on a monitor of the caller's own, for pids the host
\* hands out and, in the last two, for a pid that never exists.
KillInit ==
    \/ InitWith(<<3000>>, FALSE, Pids)
    \/ InitWith(<<3000>>, TRUE, Pids)
    \/ InitWith(<<3000>>, FALSE, {111})
    \/ InitWith(<<3000>>, TRUE, {111})

KillNext ==
    \/ ProcessEvent
    \/ ContainerEvent
    \/ KillCall
    \/ KillSteps
    \/ KillReturn

KillSpec == KillInit /\ [][KillNext]_vars

\* kill_all_processes called once on a monitor of the caller's own.
KillAllInit ==
    \/ InitWith(<<3000, 8080>>, FALSE, Pids)
    \/ InitWith(<<3000, 8080>>, TRUE, {111})

KillAllNext ==
    \/ ProcessEvent
    \/ ContainerEvent
    \/ KaCall
    \/ KaNext
    \/ KillSteps
    \/ KaCollect
    \/ KaFinish

KillAllSpec == KillAllInit /\ [][KillAllNext]_vars

\* scan_processes called once, in every state of the host.
ScanInit ==
    \/ InitWith(<<3000, 8080>>, FALSE, Pids)
    \/ InitWith(<<3000, 8080>>, TRUE, Pids)

ScanNext ==
    \/ lookups = NoLookups /\ ProcessEvent
    \/ lookups = NoLookups /\ ContainerEvent
    \/ ScanCall

ScanSpec == ScanInit /\ [][ScanNext]_vars

\* A monitor whose loop ran and was cancelled, and kill_all_processes (with
\* the kill_process calls it makes) called on it afterwards; container-
\* awareness is off.
FrameInit == InitWith(<<3000>>, FALSE, Pids)

FrameNext ==
    \/ ProcessEvent
    \/ MonitorStart
    \/ SamplePass
    \/ Tick
    \/ MonitorDropped
    \/ monPc = "dropped" /\ KaCall
    \/ KaNext
    \/ KillSigterm
    \/ KillGrace
    \/ KillProbe
    \/ KillSigkill
    \/ KaCollect
    \/ KaFinish

FrameSpec == FrameInit /\ [][FrameNext]_vars

\* kill_all_processes called once with container-awareness off, on a host
\* whose processes may run inside containers.
PlainInit == InitWith(<<3000>>, FALSE, Pids)

PlainNext ==
    \/ ProcessEvent
    \/ ContainerChange
    \/ KaCall
    \/ KaNext
    \/ KillSigterm
    \/ KillGrace
    \/ KillProbe
    \/ KillSigkill
    \/ KaCollect
    \/ KaFinish

PlainSpec == PlainInit /\ [][PlainNext]_vars

\* The tray application, running: the event loop refreshes the menu, and a
\* menu event starts the kill thread.
TrayInit == InitState(Pids, ArgsWith(<<3000>>, FALSE), "running", "tray")

TrayNext ==
    \/ ProcessEvent
    \/ TrayCheck
    \/ TrayMenuEvent
    \/ TrayKillAllCall
    \/ TrayKillNext
    \/ KillSigterm
    \/ KillGrace
    \/ KillProbe
    \/ KillSigkill
    \/ TrayKillCollect
    \/ TrayKillAllFinish

TraySpec == TrayInit /\ [][TrayNext]_vars

\* The two kill_process functions with container-awareness off, each called
\* once on every behaviour of the host.
EquivInit ==
    \E b \in HostBehaviours :
        InitStateOn(Pids, ArgsWith(<<3000>>, FALSE), "running", "console", b)

EquivNext == CallConsoleKill \/ CallTrayKill

EquivSpec == EquivInit /\ [][EquivNext]_vars

\* The command lines the functions of Args are called on: start and end from
\* PortValues, no explicit list or one of at most MaxListLen ports.
PortValues == {0, 2000, 3000, 3005, 3010, 6000}

ListPorts == {0, 3000, 8000, 8080}

PortLists == UNION {[1..n -> ListPorts] : n \in 0..MaxListLen}

CliArgs ==
    [start_port : PortValues, end_port : PortValues,
     ports : {None} \cup {Some(l) : l \in PortLists}, docker : {FALSE}]

CliInit == \E a \in CliArgs : InitState(Pids, a, "parsed", "console")

CliNext ==
    \/ CallValidate
    \/ CallGetPorts

CliSpec == CliInit /\ [][CliNext]_vars

\* Both binaries from the start of main, on command lines that pass and that
\* fail validation; container-awareness is off.
MainArgs ==
    [start_port : {3000, 8080}, end_port : {3000},
     ports : {None, Some(<<>>), Some(<<0>>), Some(<<3000>>)}, docker : {FALSE}]

MainInit ==
    \E a \in MainArgs, who \in {"console", "tray"} :
        InitState(Pids, a, "parsed", who)

MainNext ==
    \/ MainValidate
    \/ MainConstruct
    \/ ProcessEvent
    \/ MonitorStart
    \/ SamplePass
    \/ Tick
    \/ HandleConsoleUpdate
    \/ TermDispatch
    \/ TermAcquire
    \/ KillSigterm
    \/ KillGrace
    \/ KillProbe
    \/ KillSigkill
    \/ TermRelease

MainSpec == MainInit /\ [][MainNext]_vars

\* =================================================================== claims
\* ------------------------------------------------- the reconciliation loop
\* Structural equality of two snapshots, field by field: the same ports, and
\* for each port the same pid, command, name, container id and container name.
StructurallyEqual(a, b) ==
    /\ DOMAIN a = DOMAIN b
    /\ \A port \in DOMAIN a :
        /\ a[port].pid = b[port].pid
        /\ a[port].command = b[port].command
        /\ a[port].name = b[port].name
        /\ a[port].container_id = b[port].container_id
        /\ a[port].container_name = b[port].container_name

\* A step that is one successful sampling pass of start_monitoring.
SuccessfulPass == monPc = "sampling" /\ monPc' = "idle" /\ scanReturned' = "ok"

\* C1: after every successful sampling pass the loop publishes (calls send
\* with) a change event if and only if the snapshot of the pass is not
\* structurally equal to current_processes; an equal snapshot publishes
\* nothing and leaves the channel as it was, and a differing one adds exactly
\* one event to the channel of a connected receiver.
C1_PublishIffChanged ==
    [][SuccessfulPass =>
        LET changed == ~StructurallyEqual(current_processes, scanned')
        IN  /\ (lastSend' # "none") <=> changed
            /\ ~changed => channel' = channel
            /\ changed /\ receiverAlive => Len(channel') = Len(channel) + 1
            /\ Len(channel') <= Len(channel) + 1]_vars

\* Two passes saw the same non-empty snapshot S1, S1: the second published
\* nothing, and one event in all was emitted.
C1_Witness ==
    /\ monPc = "idle" /\ passNo = 2
    /\ receiverAlive
    /\ scanned # EmptyMap
    /\ lastSend = "none"
    /\ Len(received) + Len(channel) = 1

\* The pass numbers the consumer has seen, then those still in flight.
PassesSeen == [i \in DOMAIN received |-> received[i].pass]

PassesInFlight == [i \in DOMAIN channel |-> channel[i].pass]

NonDecreasing(s) == \A i, j \in DOMAIN s : i < j => s[i] <= s[j]

\* C8: change events are published in the order the snapshots were taken and
\* handle_console_updates receives them in that order: the pass numbers the
\* consumer has seen, followed by those still in the channel, never decrease,
\* and no two consecutive events in the channel carry the same snapshot.
C8_EventsInOrder ==
    /\ NonDecreasing(PassesSeen \o PassesInFlight)
    /\ \A i \in DOMAIN channel :
        i > 1 => ~StructurallyEqual(channel[i - 1].update.processes,
                                    channel[i].update.processes)

\* The consumer has received the events of two passes, the earlier first.
C8_Witness ==
    /\ Len(received) = 2
    /\ received[1].pass = 1
    /\ received[2].pass = 2

\* C9: every published change event carries the complete snapshot of the pass
\* that triggered it (what the scan of that pass returned, nothing kept from
\* the previous snapshot) and a count equal to the number of ports in it.
C9_EventIsFullSnapshot ==
    [][Len(channel') > Len(channel) =>
        LET event == channel'[Len(channel')]
        IN  /\ event.pass = passNo
            /\ event.update.processes = scanned'
            /\ event.update.count = Cardinality(DOMAIN scanned')]_vars

\* The port owned by pid 111 at pass 1 and by pid 222 at pass 2: two events,
\* each with exactly one entry and count 1.
C9_Witness ==
    /\ Len(channel) = 2
    /\ \A i \in {1, 2} :
        /\ DOMAIN channel[i].update.processes = {3000}
        /\ channel[i].update.count = 1
    /\ channel[1].update.processes[3000].pid = 111
    /\ channel[2].update.processes[3000].pid = 222

\* C7 (as the claim states it): a termination dispatched on the shared
\* monitor while the loop of start_monitoring runs does not have to wait for
\* the loop; it is never kept waiting for the mutex by the monitoring task.
C7_TerminationNeverWaitsForLoop ==
    (termPc = "locking" /\ monPc \in {"sampling", "idle"}) => mutexHolder # "monitor"

\* ----------------------------------------------------------- kill_process
\* What one call of kill_process did on the process path, in order.
ProcTrace ==
    SelectSeq(killTrace, LAMBDA e : e.op \in {"SIGTERM", "wait", "probe", "SIGKILL"})

Count(op) == Len(SelectSeq(killTrace, LAMBDA e : e.op = op))

ProcessPathOrder == <<"SIGTERM", "wait", "probe", "SIGKILL">>

\* C2: on the process path of kill_process the events of one call occur in
\* the order SIGTERM, grace-period wait, liveness probe, SIGKILL; the wait
\* follows only an accepted SIGTERM, SIGKILL is sent only after an accepted
\* SIGTERM and a probe that reported the target alive, and at most one
\* SIGTERM and at most one SIGKILL are sent per call.
C2_SignalOrder ==
    /\ Len(ProcTrace) <= Len(ProcessPathOrder)
    /\ \A k \in DOMAIN ProcTrace : ProcTrace[k].op = ProcessPathOrder[k]
    /\ Len(ProcTrace) >= 2 => ProcTrace[1].res = "ok"
    /\ Len(ProcTrace) = 4 => ProcTrace[3].res = "alive"
    /\ Count("SIGTERM") <= 1
    /\ Count("SIGKILL") <= 1

\* A call that went through all four steps and whose SIGKILL was rejected:
\* it returned the error, nothing was sent again.
C2_Witness ==
    /\ killPc = "done"
    /\ Len(ProcTrace) = 4
    /\ ProcTrace[4] = Event("SIGKILL", "err")
    /\ killResult = "err"

\* C3: on the process path kill_process returns success exactly when SIGTERM
\* was accepted and either the probe after the grace period found the target
\* not alive (no SIGKILL sent) or it found it alive and exactly one SIGKILL
\* was sent and accepted; in every other case it returns an error.
C3_ProcessPathResult ==
    (killPc = "done" /\ ProcTrace # <<>>) =>
        /\ killResult \in {"ok", "err"}
        /\ killResult = "ok" <=>
            /\ ProcTrace[1] = Event("SIGTERM", "ok")
            /\ \/ /\ Len(ProcTrace) = 3
                  /\ ProcTrace[3] = Event("probe", "gone")
                  /\ Count("SIGKILL") = 0
               \/ /\ Len(ProcTrace) = 4
                  /\ ProcTrace[3] = Event("probe", "alive")
                  /\ ProcTrace[4] = Event("SIGKILL", "ok")
                  /\ Count("SIGKILL") = 1

\* The target ignored SIGTERM, was alive after the grace period, and the one
\* SIGKILL was accepted: the call succeeded.
C3_Witness ==
    /\ killPc = "done"
    /\ ProcTrace = <<Event("SIGTERM", "ok"), Event("wait", "500ms"),
                     Event("probe", "alive"), Event("SIGKILL", "ok")>>
    /\ killResult = "ok"

\* C4: with container-awareness on and a pid the lookup maps to a container,
\* the container path is taken exclusively: the call sends no SIGTERM and no
\* SIGKILL to the pid at any point, whether the stop or the remove succeeds
\* or fails.
C4_ContainerPathExclusive ==
    (docker_enabled /\ killContainer # None) =>
        /\ ProcTrace = <<>>
        /\ killPc \notin {"sigterm", "grace", "probe", "sigkill"}

\* The pid mapped to a container, the stop and the remove both failed, and the
\* call returned the error.
C4_Witness ==
    /\ killPc = "done"
    /\ killContainer # None
    /\ Count("stop") = 1 /\ Count("rm") = 1
    /\ killResult = "err"

\* How `docker stop` and `docker rm -f` of the call ended ("none": not issued).
StopRes ==
    IF Count("stop") = 0 THEN "none"
    ELSE SelectSeq(killTrace, LAMBDA e : e.op = "stop")[1].res

RmRes ==
    IF Count("rm") = 0 THEN "none"
    ELSE SelectSeq(killTrace, LAMBDA e : e.op = "rm")[1].res

\* C5 (as the claim states it): on the container path a forced remove is
\* issued if and only if the graceful stop fails, the call reports an error
\* only if both the stop and the remove fail, and a remove that succeeds
\* after a failed stop is an overall success.
C5_ErrorOnlyIfBothFail ==
    (killPc = "done" /\ StopRes # "none") =>
        /\ (RmRes # "none") <=> (StopRes # "ok")
        /\ killResult = "err" => (StopRes # "ok" /\ RmRes \in {"nospawn", "nonzero"})
        /\ (StopRes # "ok" /\ RmRes = "ok") => killResult = "ok"

\* C5 (amended): on the container path the graceful stop is issued first and
\* once; the forced remove is issued if and only if the stop ran and exited
\* non-zero; the call returns an error if and only if the stop could not be
\* run (no remove is issued then), or the stop exited non-zero and the remove
\* could not be run or exited non-zero; a remove that succeeds after a stop
\* that exited non-zero is an overall success.
C5_StopThenRemove ==
    (killPc = "done" /\ StopRes # "none") =>
        /\ Count("stop") = 1 /\ Count("rm") <= 1
        /\ Last(killTrace).op = IF Count("rm") = 1 THEN "rm" ELSE "stop"
        /\ (RmRes # "none") <=> (StopRes = "nonzero")
        /\ killResult \in {"ok", "err"}
        /\ killResult = "err" <=>
            \/ StopRes = "nospawn"
            \/ StopRes = "nonzero" /\ RmRes \in {"nospawn", "nonzero"}
        /\ (StopRes = "nonzero" /\ RmRes = "ok") => killResult = "ok"

\* The stop exited non-zero, the remove succeeded, the call succeeded.
C5_Witness ==
    /\ killPc = "done"
    /\ StopRes = "nonzero"
    /\ RmRes = "ok"
    /\ killResult = "ok"

\* ------------------------------------------------------ kill_all_processes
\* The calls of kill_process that returned an error, in order.
Failed == SelectSeq(kaAttempts, LAMBDA a : a.result = "err")

\* C6: when the scan of kill_all_processes found k descriptors of which m
\* fail to terminate, kill_process was called for all k (once per port found,
\* with the pid found there), the collected errors are exactly the m failed
\* ones, and the batch succeeds if and only if m = 0, k = 0 included.
C6_BatchAggregate ==
    kaPc = "done" =>
        /\ Len(kaAttempts) = Cardinality(DOMAIN kaProcesses)
        /\ {kaAttempts[i].port : i \in DOMAIN kaAttempts} = DOMAIN kaProcesses
        /\ \A i \in DOMAIN kaAttempts :
            /\ kaAttempts[i].pid = kaProcesses[kaAttempts[i].port].pid
            /\ kaAttempts[i].result \in {"ok", "err"}
        /\ Len(kaErrors) = Len(Failed)
        /\ \A i \in DOMAIN kaErrors : kaErrors[i] = <<Failed[i].port, Failed[i].pid>>
        /\ kaResult \in {"ok", "err"}
        /\ kaResult = "ok" <=> Len(Failed) = 0

\* Two descriptors found, the first termination failed, the second was still
\* attempted and succeeded, and the batch returned the error.
C6_Witness ==
    /\ kaPc = "done"
    /\ Len(kaAttempts) = 2
    /\ kaAttempts[1].result = "err"
    /\ kaAttempts[2].result = "ok"
    /\ Len(kaErrors) = 1
    /\ kaResult = "err"

\* ----------------------------------------------------------- scan_processes
\* C10: in scan_processes a failed lookup of one port excludes only that
\* port: every monitored port whose lookup succeeded is in the snapshot with
\* the descriptor the lookup returned, every port whose lookup failed is
\* absent, and the scan itself returns Ok.
C10_PerPortFailure ==
    lookups # NoLookups =>
        /\ scanReturned = "ok"
        /\ DOMAIN scanned \subseteq Monitored
        /\ \A port \in Monitored :
            IF lookups[port].ok
                THEN port \in DOMAIN scanned /\ scanned[port] = lookups[port].val
                ELSE port \notin DOMAIN scanned

\* The lookup of the first port succeeded, the one of the second returned an
\* unparseable pid, and the first port is in the snapshot.
C10_Witness ==
    /\ lookups # NoLookups
    /\ lookups[3000].ok
    /\ lookups[8080] = Err("Failed to parse PID")
    /\ 3000 \in DOMAIN scanned
    /\ scanReturned = "ok"

\* -------------------------------------------- the loop, whatever the pass
\* A step that is one sampling pass in which the builder could not run.
FailedPass == monPc = "sampling" /\ monPc' # "sampling" /\ scanFailed'

C12_LoopNeverEnds ==
    /\ monPc \in {"spawned", "sampling", "idle"}
    /\ monPc = "sampling" => ENABLED SamplePass
    /\ (monPc = "idle" /\ passNo < MaxPasses) => ENABLED Tick

\* A pass whose update could not be sent (the receiver is gone) is over, and
\* the loop is idle-waiting for its next pass.
C12_Witness ==
    /\ monPc = "idle"
    /\ passNo = 1
    /\ lastSend = "err"
    /\ ENABLED Tick

\* ---------------------------------------- termination and the cached snapshot
\* A step of kill_process or of kill_all_processes.
TerminationStep ==
    \/ killPc' # killPc
    \/ killTrace' # killTrace
    \/ kaPc' # kaPc
    \/ kaTarget' # kaTarget

\* C13: no step of kill_process or kill_all_processes changes
\* current_processes, and the targets of kill_all_processes are exactly what
\* the scan it makes during the call returned, whatever the loop has cached.
C13_TerminationLeavesCurrent ==
    [][TerminationStep =>
        /\ current_processes' = current_processes
        /\ (kaPc = "idle" /\ kaPc' # "idle") =>
            /\ kaProcesses' = scanned'
            /\ kaTodo' = DOMAIN scanned']_vars

\* The loop had cached pid A on the port; the batch found pid B there on its
\* own scan, called kill_process for B, and the cached snapshot still names A.
C13_Witness ==
    /\ kaPc = "done"
    /\ current_processes # EmptyMap
    /\ kaProcesses # EmptyMap
    /\ kaProcesses[3000].pid # current_processes[3000].pid
    /\ Len(kaAttempts) = 1
    /\ kaAttempts[1].pid = kaProcesses[3000].pid

\* ------------------------------------------- kill_process on a gone target
\* The target of the call does not exist, and never did in this run.
GoneTarget == killPid \notin hostPids

\* The call follows a call for the same pid that has returned.
SecondCall == killPrev.pid = killPid /\ killPrev.result # "none"

\* C14 (as the claim states it): on a target that is already gone each of
\* two calls in a row ends with success or with the 'no such process' error
\* of a signal, no SIGKILL is sent, and the second call ends as the first.
C14_GoneTargetSuccessOrNotFound ==
    (killPc = "done" /\ GoneTarget) =>
        /\ \/ killResult = "ok"
           \/ killResult = "err" /\ Last(killTrace).op \in {"SIGTERM", "SIGKILL"}
        /\ Count("SIGKILL") = 0
        /\ SecondCall =>
            killPrev = Ended(killPid, killResult, killTrace)

\* C14 (amended): on a target that is already gone every call returns an
\* error, never success: the error of the rejected SIGTERM or, with
\* container-awareness on, the error of a container lookup that could not
\* run; no call waits out the grace period, sends SIGKILL or stops a
\* container, every step of the call can be taken (it does not hang), the
\* second of two calls in a row returns an error like the first and, with
\* container-awareness off, the same error.
C14_GoneTargetErrs ==
    /\ (GoneTarget /\ killPc \notin {"idle", "done"}) => ENABLED KillSteps
    /\ (killPc = "done" /\ GoneTarget) =>
        /\ killResult = "err"
        /\ Count("wait") = 0 /\ Count("SIGKILL") = 0 /\ Count("stop") = 0
        /\ \/ Last(killTrace) = Event("SIGTERM", "err")
           \/ docker_enabled /\ Last(killTrace) = Event("lookup", "err")
        /\ SecondCall => killPrev.result = killResult
        /\ (SecondCall /\ ~docker_enabled) =>
            killPrev = Ended(killPid, killResult, killTrace)

\* The second of two calls in a row for a pid that does not exist has
\* returned the error of the rejected SIGTERM, as the first did.
C14_Witness ==
    /\ killPc = "done"
    /\ GoneTarget
    /\ SecondCall
    /\ killPrev.last = Event("SIGTERM", "err")
    /\ Last(killTrace) = Event("SIGTERM", "err")
    /\ killResult = "err"

\* ------------------------------------------------------------------- Args
\* The elements of a sequence.
Elems(list) == {list[i] : i \in DOMAIN list}

\* C15: get_ports_to_monitor returns every port from start to end inclusive,
\* in ascending order, when no explicit list is given, and exactly the
\* explicit list, whatever start and end are, when one is given.
C15_PortsToMonitor ==
    portsOut # None =>
        LET out == portsOut[1]
        IN  IF args.ports = None
                THEN /\ Elems(out) = args.start_port..args.end_port
                     /\ Len(out) = Cardinality(args.start_port..args.end_port)
                     /\ \A i \in DOMAIN out : i > 1 => out[i - 1] < out[i]
                ELSE out = args.ports[1]

\* start = 3000, end = 3005 and no explicit list: 3000 to 3005.
C15_Witness ==
    /\ args.ports = None
    /\ args.start_port = 3000 /\ args.end_port = 3005
    /\ portsOut = Some(<<3000, 3001, 3002, 3003, 3004, 3005>>)

C18_AcceptedHasNoZeroPort ==
    (validation # None /\ validation[1].ok /\ portsOut # None) =>
        /\ portsOut[1] # <<>>
        /\ 0 \notin Elems(portsOut[1])

\* --------------------------------------------------------------------- main
\* C17: in both binaries a failed validation ends the process with a
\* non-zero status before any ProcessMonitor is constructed: a process that
\* exited that way has constructed no monitor and run no sampling pass and no
\* termination, and a monitor, a pass or a termination exists only under a
\* configuration that validate accepted.
C17_ValidationPrecedesLoop ==
    /\ mainPc \in {"validated", "running"} =>
        validation # None /\ validation[1].ok
    /\ (validation # None /\ ~validation[1].ok) =>
        /\ mainPc = "exited"
        /\ exitCode # None /\ exitCode[1] # 0
    /\ mainPc \in {"parsed", "exited"} =>
        /\ ports_to_monitor = <<>>
        /\ monPc = "none" /\ passNo = 0 /\ scanReturned = "none"
        /\ termPc = "idle" /\ killPc = "idle" /\ killTrace = <<>>
        /\ mutexHolder = "none"

\* The tray binary was given an empty explicit list: it exited with status 1
\* and nothing was constructed.
C17_Witness ==
    /\ entry = "tray"
    /\ args.ports = Some(<<>>)
    /\ mainPc = "exited"
    /\ exitCode = Some(1)
    /\ monPc = "none"

\* ------------------------------------------------- a vanished owner in a scan
\* In this step scan_processes ran while `pid`, the one listener lsof could
\* report on `port`, exited before ps was asked about it.
VanishedDuringScan(port, pid) ==
    /\ lookups = NoLookups /\ lookups' # NoLookups
    /\ listeners[port] = {pid}
    /\ pid \notin running'

\* C19 (as the claim states it): a port whose owner vanishes between the port
\* lookup and the describe step of a pass is excluded from the snapshot of
\* that pass.
C19_VanishedOwnerExcluded ==
    [][\A port \in Monitored, pid \in Pids :
            VanishedDuringScan(port, pid) => port \notin DOMAIN scanned']_vars

\* C19 (amended): such a port is excluded only when lsof or ps could not be
\* started; when ps runs and reports that it cannot find the pid, the port is
\* in the snapshot, with the pid lsof returned and "unknown" as its command
\* and name.
C19_VanishedOwnerIsUnknown ==
    [][\A port \in Monitored, pid \in Pids :
            VanishedDuringScan(port, pid) =>
                LET result == lookups'[port]
                IN  /\ port \in DOMAIN scanned' <=> result.ok
                    /\ result.ok =>
                        /\ scanned'[port].pid = pid
                        /\ scanned'[port].port = port
                        /\ scanned'[port].command = <<"unknown">>
                        /\ scanned'[port].name = "unknown"
                    /\ ~result.ok =>
                        result \in {Err("Failed to execute lsof command"),
                                    Err("Failed to execute ps command")}]_vars

\* The scan returned a descriptor for a pid that no longer runs: it is in the
\* snapshot as "unknown".
C19_Witness ==
    /\ lookups # NoLookups
    /\ lookups[3000].ok
    /\ lookups[3000].val.pid \notin running
    /\ 3000 \in DOMAIN scanned
    /\ scanned[3000].command = <<"unknown">>

\* ------------------------------------------------- container-awareness off
\* No descriptor of the snapshot names a container.
NoContainerIn(processes) ==
    \A port \in DOMAIN processes :
        /\ processes[port].container_id = None
        /\ processes[port].container_name = None

\* C20: with container-awareness disabled the container lookup is never
\* made: every descriptor of every snapshot has container id and container
\* name absent, and every terminate call takes the process path, with no
\* container lookup, stop or remove.
C20_DisabledNeverLooksUp ==
    ~docker_enabled =>
        /\ NoContainerIn(scanned)
        /\ NoContainerIn(kaProcesses)
        /\ NoContainerIn(current_processes)
        /\ Count("lookup") = 0 /\ Count("stop") = 0 /\ Count("rm") = 0
        /\ killContainer = None
        /\ killPc \notin {"lookup", "stop", "remove"}

\* With container-awareness off, the owner of port 3000 runs inside a running
\* container; the snapshot names no container for it and the terminate call
\* has sent it SIGTERM.
C20_Witness ==
    /\ ~docker_enabled
    /\ 3000 \in DOMAIN kaProcesses
    /\ kaProcesses[3000].pid = killPid
    /\ \E c \in Containers : containerUp[c] /\ killPid \in containerPids[c]
    /\ killPc = "grace"
    /\ killTrace = <<Event("SIGTERM", "ok")>>

\* --------------------------------------------------- container id and name
\* C21: in every descriptor of every snapshot a present container name
\* implies a present container id; an id without a name does occur, when the
\* name lookup fails (C21_Witness).
C21_NameImpliesId ==
    \A processes \in {scanned, current_processes, kaProcesses} :
        \A port \in DOMAIN processes :
            processes[port].container_name # None =>
                processes[port].container_id # None

\* `docker inspect` could not be started: the descriptor of port 3000 has the
\* id of its container and no name.
C21_Witness ==
    /\ docker_enabled
    /\ 3000 \in DOMAIN scanned
    /\ scanned[3000].container_id = Some("c1")
    /\ scanned[3000].container_name = None

\* ------------------------------------------------------ keys of a snapshot
\* The snapshots the program holds: the last one built, `current`, and the
\* ones carried by the events in the channel.
HeldSnapshots ==
    {scanned, current_processes} \cup
    {channel[i].update.processes : i \in DOMAIN channel}

\* In this step a pass of the loop built a snapshot.
PassBuilt == monPc = "sampling" /\ monPc' = "idle" /\ scanReturned' = "ok"

\* C22: in every snapshot built by scan_processes, and so in `current` and
\* in every published event, each key is a monitored port for which lsof
\* returned the owning pid, the descriptor under key p has port p, and a
\* monitored port nothing listens on has no entry.
C22_KeysAreOwnedMonitoredPorts ==
    /\ [](\A processes \in HeldSnapshots : \A p \in DOMAIN processes :
            p \in Monitored /\ processes[p].port = p)
    /\ [][PassBuilt =>
            \A p \in Monitored :
                /\ p \in DOMAIN scanned' => listeners[p] = {scanned'[p].pid}
                /\ listeners[p] = {} => p \notin DOMAIN scanned']_vars

\* The first pass published the owner of port 3000; it exited, and the second
\* pass built and published a snapshot with no entry for the port.
C22_Witness ==
    /\ monPc = "idle" /\ scanReturned = "ok"
    /\ listeners[3000] = {}
    /\ scanned = EmptyMap /\ current_processes = EmptyMap
    /\ Len(channel) = 2
    /\ DOMAIN channel[1].update.processes = {3000}
    /\ channel[2].update.processes = EmptyMap

\* ------------------------------------------------------- the tray batch kill
\* The calls of kill_process of the tray batch that returned an error.
TrayFailures == SelectSeq(trayAttempts, LAMBDA a : a.result = "err")

\* C23 (as the claim states it): the tray batch kill attempts every pid it
\* found, does not stop at a failure, and returns an error if and only if at
\* least one of its terminations failed.
C23_TrayBatchFailsIffTargetFailed ==
    (trayPc = "done" /\ trayAttempts # <<>>) =>
        /\ trayTodo = <<>>
        /\ trayResult = "err" <=> TrayFailures # <<>>

\* ------------------------------------------------------- tray menu events
\* The tray kill thread is at work on a pid.
TrayKilling == killCaller = "tray" /\ killPc # "idle"

\* C29 (as the claim states it): in tray mode the batch is started only by
\* the "Kill All Processes" item; a "Kill: Port ..." item terminates only its
\* own process, and "Quit" terminates no process.
C29_BatchOnlyFromKillAllItem ==
    /\ trayPc \in {"spawned", "loop"} => menuEvent.kind = "kill_all"
    /\ menuEvent.kind = "quit" => trayAttempts = <<>> /\ ~TrayKilling
    /\ menuEvent.kind = "kill" =>
        /\ \A i \in DOMAIN trayAttempts : trayAttempts[i].pid = menuEvent.pid
        /\ TrayKilling => killPid = menuEvent.pid

\* ------------------------------------------------- current and publication
\* C24 (as the claim states it): `current` is the snapshot of the most
\* recently sent event, or empty before the first one; step by step: a pass
\* changes `current` only together with an event that was sent and carries the
\* new value, so a change whose publication fails does not advance `current`.
C24_CurrentIsLastPublished ==
    [][(monPc = "sampling" /\ current_processes' # current_processes) =>
            /\ lastSend' = "ok"
            /\ channel' # <<>>
            /\ Last(channel').update.processes = current_processes']_vars

C26_LookupErrorReturnedByKill ==
    /\ (killTrace # <<>> /\ killTrace[1] = Event("lookup", "err")) =>
        /\ killPc \in {"done", "idle"} /\ killResult = "err"
        /\ killTrace = <<Event("lookup", "err")>>
        /\ killContainer = None
    /\ docker_enabled =>
        \A pid \in running : \A found \in FoundSet(pid) :
            ~found.ok =>
                \A inspects \in InspectsSet, ps \in PsRuns(pid, {}) :
                    /\ get_docker_container_info(found, inspects) = <<None, None>>
                    /\ ps.spawned =>
                        LET details == get_process_details(pid, 3000, ps, TRUE,
                                                           found, inspects)
                        IN  /\ details.ok
                            /\ details.val.container_id = None
                            /\ details.val.container_name = None

\* docker could not be started for the lookup of a running target: the call
\* returned the error and did nothing else.
C26_Witness ==
    /\ docker_enabled
    /\ killPid \in running
    /\ killPc = "done" /\ killResult = "err"
    /\ killTrace = <<Event("lookup", "err")>>

\* --------------------------------------------- one process on several ports
\* C27 (as the claim states it): within one batch every distinct pid gets at
\* most one graceful signal: a process that owns two monitored ports is
\* terminated once, and the batch succeeds if that termination succeeds.
C27_OneSigtermPerPid ==
    (~docker_enabled /\ kaPc # "idle") =>
        /\ \A i, j \in DOMAIN kaAttempts :
            i # j => kaAttempts[i].pid # kaAttempts[j].pid
        /\ (kaPc = "done" /\ kaAttempts # <<>> /\ kaAttempts[1].result = "ok"
            /\ \A i \in DOMAIN kaAttempts : kaAttempts[i].pid = kaAttempts[1].pid)
                => kaResult = "ok"

\* C27 (amended): the batch calls kill_process once for every descriptor of
\* its scan, in some order, with the pid of that descriptor: a process that
\* owns two monitored ports is the target of two calls, and with
\* container-awareness off each call sends it SIGTERM, so that the second
\* call fails, and with it the batch, when the first has ended the process.
C27_OneCallPerDescriptor ==
    kaPc # "idle" =>
        /\ \A i \in DOMAIN kaAttempts :
            /\ kaAttempts[i].port \in DOMAIN kaProcesses
            /\ kaAttempts[i].pid = kaProcesses[kaAttempts[i].port].pid
        /\ \A i, j \in DOMAIN kaAttempts :
            i # j => kaAttempts[i].port # kaAttempts[j].port
        /\ {kaAttempts[i].port : i \in DOMAIN kaAttempts} \cup kaTodo
                = DOMAIN kaProcesses
        /\ (kaPc = "done" /\ scanReturned = "ok") =>
            Len(kaAttempts) = Cardinality(DOMAIN kaProcesses)
        /\ (~docker_enabled /\ killCaller = "all" /\ killPc \notin {"idle", "sigterm"}) =>
            Count("SIGTERM") = 1

\* pid 111 owned both ports: the first call ended it, the second one sent
\* SIGTERM again, was rejected, and the batch returned the error.
C27_Witness ==
    /\ ~docker_enabled
    /\ kaPc = "done" /\ kaResult = "err"
    /\ Len(kaAttempts) = 2
    /\ kaAttempts[1].pid = 111 /\ kaAttempts[1].result = "ok"
    /\ kaAttempts[2].pid = 111 /\ kaAttempts[2].result = "err"
    /\ killTrace = <<Event("SIGTERM", "err")>>

\* ------------------------------------- the path of a target inside a batch
\* The descriptor the batch is at.
BatchDescriptor == kaProcesses[kaTarget[1]]

OnProcessPath ==
    \/ killPc \in {"sigterm", "grace", "probe", "sigkill"}
    \/ Count("SIGTERM") + Count("SIGKILL") > 0

OnContainerPath ==
    \/ killPc \in {"stop", "remove"}
    \/ Count("stop") + Count("rm") > 0

\* C28 (as the claim states it): in a batch with container-awareness on, a
\* pid whose descriptor in the batch's scan carries a container id is never
\* sent SIGTERM or SIGKILL, even when an earlier target of the batch has
\* stopped or removed that container.
C28_PathFromScanDescriptor ==
    (docker_enabled /\ killCaller = "all" /\ kaTarget # None
     /\ BatchDescriptor.container_id # None) => ~OnProcessPath

\* C28 (amended): the path of every target of the batch is chosen by the
\* container lookup kill_process repeats when it is called, not by the
\* descriptor of the scan: the target is signalled only when that lookup found
\* no container, also when its descriptor carries a container id, and the
\* container is stopped or removed only when that lookup found one.
C28_PathFromRepeatedLookup ==
    (docker_enabled /\ killCaller = "all" /\ kaTarget # None) =>
        /\ killPc # "lookup" => killTrace # <<>> /\ killTrace[1].op = "lookup"
        /\ OnProcessPath =>
            killTrace[1] = Event("lookup", "none") /\ killContainer = None
        /\ OnContainerPath =>
            killTrace[1] = Event("lookup", "some") /\ killContainer # None
        /\ ~(OnProcessPath /\ OnContainerPath)

\* pid 111 owned both ports inside container c1: the first call stopped the
\* container; the second one found no container and sent SIGTERM to the pid.
C28_Witness ==
    /\ docker_enabled /\ killCaller = "all" /\ kaTarget # None
    /\ BatchDescriptor.container_id = Some("c1")
    /\ Len(kaAttempts) = 2
    /\ kaAttempts[1].pid = killPid /\ kaAttempts[1].result = "ok"
    /\ killTrace = <<Event("lookup", "none"), Event("SIGTERM", "err")>>

\* --------------------------------------------- validate and the unused range
\* C30 (as the claim states it): with an explicit list, the outcome of
\* validate depends on the list only: the same list with any other start and
\* end, start > end included, is accepted or rejected alike.
C30_ValidateIgnoresRangeWithList ==
    (validation # None /\ args.ports # None) =>
        \A start \in PortValues, end \in PortValues :
            validate([args EXCEPT !.start_port = start, !.end_port = end]).ok
                = validation[1].ok

\* --------------------------------------------------- the two kill_process
\* C31: with container-awareness off, ProcessMonitor::kill_process and
\* PortKillApp::kill_process do the same on every behaviour of the host
\* (SIGTERM accepted or rejected, pid alive or not after the wait, SIGKILL
\* accepted or rejected): the same signals to the pid, in the same order, and
\* the same Ok or Err.
C31_KillProcessVariantsAgree ==
    (consoleKill # None /\ trayKill # None) =>
        /\ consoleKill[1].signals = trayKill[1].signals
        /\ consoleKill[1].result = trayKill[1].result

\* SIGTERM was accepted, ps still found the pid, and the pid was gone when
\* SIGKILL was sent: both sent SIGTERM then SIGKILL and returned the error.
C31_Witness ==
    /\ hostBehaviour.atSigterm /\ hostBehaviour.atProbe /\ ~hostBehaviour.atSigkill
    /\ hostBehaviour.permitted /\ hostBehaviour.psSpawns
    /\ consoleKill = Some(Did(<<Signal("SIGTERM", hostBehaviour.pid),
                                Signal("SIGKILL", hostBehaviour.pid)>>, "err"))
    /\ trayKill = consoleKill

====
